---- MODULE Spec2Model ----
(***************************************************************************)
(* Occupancy / duration analysis engine of the AI parking system           *)
(* (ai-services/video_processor.py), with the detector adapter             *)
(* (parking_detector.py) and the helpers of utils.py it relies on.         *)
(*                                                                         *)
(* Python floats are modelled as exact rationals [n |-> num, d |-> den]    *)
(* in lowest terms with d > 0.  The input values below are chosen so that  *)
(* the threshold tests of the code (overlap > 0.5, score > 0.6,            *)
(* stability > 0.8, occupied_count > len / 2) have the same outcome in     *)
(* IEEE doubles and in exact arithmetic.                                   *)
(***************************************************************************)
EXTENDS Integers, Sequences, FiniteSets, TLC

VARIABLES
    clsIn,              \* arguments of one call of _analyze_slot_occupancy
    clsOut,             \* the dictionary that call returned
    estIn,              \* argument (timeline) of one call of _analyze_slot_duration
    estOut,             \* the dictionary that call returned
    detIn,              \* one call of detect_vehicles: the detector, the frame, what inference does
    detOut,             \* what that call handed back
    nmsIn,              \* arguments of non_max_suppression
    nmsOut,             \* its output, followed by its output on that output
    ovIn,               \* two boxes handed to the overlap functions
    ovOut,              \* the overlaps computed on them
    pc,                 \* where process_video stands
    analysis_type,      \* process_video's analysis_type argument
    slot_config,        \* process_video's slot_config argument
    cap,                \* the cv2.VideoCapture: opened, frames held, read position
    frame_count,        \* frame_count of the running pass
    slot_detections,    \* slot_detections of _process_occupancy_analysis
    slot_timeline,      \* slot_timeline of _process_duration_analysis
    processing_stats,   \* self.processing_stats
    occupancy_results,  \* what _process_occupancy_analysis returned
    duration_results,   \* what _process_duration_analysis returned
    final_results,      \* what process_video returned
    error,              \* the exception process_video raised
    verdicts,           \* history: every verdict the running occupancy pass computed
    sampled,            \* history: the video positions of the frames the running pass gave to the detector
    io,                 \* history: handles opened, frames decoded and detector calls since process_video was called
    classified,         \* history: the slots handed to _analyze_slot_occupancy since process_video was called
    calls,              \* history: the process_video calls begun on this VideoProcessor
    reports,            \* the reports the finished calls returned, as their callers hold them
    returned,           \* history: what each of those reports read when it was returned
    slot_config_str,    \* the --slot_config argument of the command line, as a JSON document
    cli                 \* main(): where it stands, its slot_config, its processor, its error

clsVars == <<clsIn, clsOut>>
estVars == <<estIn, estOut>>
detVars == <<detIn, detOut>>
nmsVars == <<nmsIn, nmsOut>>
ovVars == <<ovIn, ovOut>>
runVars == <<pc, analysis_type, slot_config, cap, frame_count, slot_detections,
             slot_timeline, processing_stats, occupancy_results, duration_results,
             final_results, error, verdicts, sampled, io, classified, calls, reports,
             returned>>

cliVars == <<slot_config_str, cli>>

vars == <<clsVars, estVars, detVars, nmsVars, ovVars, runVars, cliVars>>

(***************************************************************************)
(* Bounds of the model.                                                    *)
(***************************************************************************)
MaxDets == 3        \* longest detection list handed to the classifier
MaxTimeline == 7    \* longest timeline handed to the estimator
MaxFrames == 31     \* longest video handed to process_video
FrameWidth == 8     \* frame.shape[1] of the modelled frames
FrameHeight == 4    \* frame.shape[0] of the modelled frames
MaxRuns == 2        \* most process_video calls on one VideoProcessor

(***************************************************************************)
(* Exact rational arithmetic standing for Python float arithmetic.         *)
(***************************************************************************)
Abs(a) == IF a < 0 THEN -a ELSE a

RECURSIVE GCD(_, _)
GCD(a, b) == IF b = 0 THEN a ELSE GCD(b, a % b)

Rat(n, d) == LET g == GCD(Abs(n), d) IN [n |-> n \div g, d |-> d \div g]

Zero == Rat(0, 1)
One == Rat(1, 1)

RLt(a, b) == a.n * b.d < b.n * a.d
RLe(a, b) == a.n * b.d <= b.n * a.d
RAdd(a, b) == Rat(a.n * b.d + b.n * a.d, a.d * b.d)
RSub(a, b) == Rat(a.n * b.d - b.n * a.d, a.d * b.d)
RMul(a, b) == Rat(a.n * b.n, a.d * b.d)
RDivInt(a, k) == Rat(a.n, a.d * k)

\* Python's max(a, b) and min(a, b): the first argument unless the second
\* is strictly better.
RMax(a, b) == IF RLt(a, b) THEN b ELSE a
RMin(a, b) == IF RLt(b, a) THEN b ELSE a

IMax(a, b) == IF b > a THEN b ELSE a
IMin(a, b) == IF b < a THEN b ELSE a

\* Python's None, for a label and for a box.
None == "None"
NoBox == <<>>

(***************************************************************************)
(* VideoProcessor._calculate_overlap: intersection over union of two       *)
(* (x, y, w, h) boxes.                                                     *)
(***************************************************************************)
\* Mutant: the union is the sum of the two areas.
_calculate_overlap_SumOfAreas(box1, box2) ==
    LET x1 == box1[1]
        y1 == box1[2]
        w1 == box1[3]
        h1 == box1[4]
        x2 == box2[1]
        y2 == box2[2]
        w2 == box2[3]
        h2 == box2[4]
        left == IMax(x1, x2)
        top == IMax(y1, y2)
        right == IMin(x1 + w1, x2 + w2)
        bottom == IMin(y1 + h1, y2 + h2)
    IN  IF left < right /\ top < bottom
        THEN LET intersection == (right - left) * (bottom - top)
                 area1 == w1 * h1
                 area2 == w2 * h2
                 union == area1 + area2
             IN  IF union > 0 THEN Rat(intersection, union) ELSE Zero
        ELSE Zero

\* Mutant: the test "left < right and top < bottom" is missing.
_calculate_overlap_NoIntersectionTest(box1, box2) ==
    LET x1 == box1[1]
        y1 == box1[2]
        w1 == box1[3]
        h1 == box1[4]
        x2 == box2[1]
        y2 == box2[2]
        w2 == box2[3]
        h2 == box2[4]
        left == IMax(x1, x2)
        top == IMax(y1, y2)
        right == IMin(x1 + w1, x2 + w2)
        bottom == IMin(y1 + h1, y2 + h2)
        intersection == (right - left) * (bottom - top)
        area1 == w1 * h1
        area2 == w2 * h2
        union == area1 + area2 - intersection
    IN  IF union > 0 THEN Rat(intersection, union) ELSE Zero

_calculate_overlap(box1, box2) ==
    LET x1 == box1[1]
        y1 == box1[2]
        w1 == box1[3]
        h1 == box1[4]
        x2 == box2[1]
        y2 == box2[2]
        w2 == box2[3]
        h2 == box2[4]
        left == IMax(x1, x2)
        top == IMax(y1, y2)
        right == IMin(x1 + w1, x2 + w2)
        bottom == IMin(y1 + h1, y2 + h2)
    IN  IF left < right /\ top < bottom
        THEN LET intersection == (right - left) * (bottom - top)
                 area1 == w1 * h1
                 area2 == w2 * h2
                 union == area1 + area2 - intersection
             IN  IF union > 0 THEN Rat(intersection, union) ELSE Zero
        ELSE Zero

(***************************************************************************)
(* utils.calculate_iou and utils.non_max_suppression                       *)
(***************************************************************************)
calculate_iou(box1, box2) ==
    LET x1 == box1[1]
        y1 == box1[2]
        w1 == box1[3]
        h1 == box1[4]
        x2 == box2[1]
        y2 == box2[2]
        w2 == box2[3]
        h2 == box2[4]
        left == IMax(x1, x2)
        top == IMax(y1, y2)
        right == IMin(x1 + w1, x2 + w2)
        bottom == IMin(y1 + h1, y2 + h2)
    IN  IF left < right /\ top < bottom
        THEN LET intersection == (right - left) * (bottom - top)
                 area1 == w1 * h1
                 area2 == w2 * h2
                 union == area1 + area2 - intersection
             IN  IF union > 0 THEN Rat(intersection, union) ELSE Zero
        ELSE Zero

\* Mutant: the sort is not stable, a detection goes before those of equal
\* confidence.
RECURSIVE InsertByConfidence_BeforeEquals(_, _)
InsertByConfidence_BeforeEquals(sorted, detection) ==
    IF sorted = <<>>
    THEN <<detection>>
    ELSE IF RLe(Head(sorted).confidence, detection.confidence)
         THEN <<detection>> \o sorted
         ELSE <<Head(sorted)>> \o InsertByConfidence_BeforeEquals(Tail(sorted), detection)

\* sorted(..., reverse=True) is stable: a detection goes behind those of
\* equal or higher confidence that precede it in the list.
RECURSIVE InsertByConfidence(_, _)
InsertByConfidence(sorted, detection) ==
    IF sorted = <<>>
    THEN <<detection>>
    ELSE IF RLt(Head(sorted).confidence, detection.confidence)
         THEN <<detection>> \o sorted
         ELSE <<Head(sorted)>> \o InsertByConfidence(Tail(sorted), detection)

\* sorted(detections, key=lambda x: x['confidence'], reverse=True)
RECURSIVE SortedByConfidence(_)
SortedByConfidence(detections) ==
    IF detections = <<>>
    THEN <<>>
    ELSE InsertByConfidence(SortedByConfidence(SubSeq(detections, 1, Len(detections) - 1)),
                            detections[Len(detections)])

\* Lines 226-230: the detections that current does not suppress.
Remaining(current, detections, iou_threshold) ==
    SelectSeq(detections,
              LAMBDA detection :
                  RLe(calculate_iou(current.bbox, detection.bbox), iou_threshold))

\* The while loop (lines 219-232).
RECURSIVE Keep(_, _)
Keep(detections, iou_threshold) ==
    IF detections = <<>>
    THEN <<>>
    ELSE <<Head(detections)>>
         \o Keep(Remaining(Head(detections), Tail(detections), iou_threshold), iou_threshold)

non_max_suppression(detections, iou_threshold) ==
    IF detections = <<>>
    THEN <<>>
    ELSE Keep(SortedByConfidence(detections), iou_threshold)

(***************************************************************************)
(* numpy basic slicing a[lo:hi] on an axis of length n: the number of      *)
(* indices selected (negative bounds count from the end, all clipped).     *)
(***************************************************************************)
SliceBound(i, n) == IF i < 0 THEN IMax(i + n, 0) ELSE IMin(i, n)

SliceLen(lo, hi, n) == IMax(SliceBound(hi, n) - SliceBound(lo, n), 0)

\* frame[int(y):int(y+h), int(x):int(x+w)]: the crop's pixel count (.size
\* counts the three colour channels) and the statistics OpenCV computes on
\* it, which the frame carries per region.
SlotRegion(frame, x, y, w, h) ==
    [size |-> SliceLen(y, y + h, frame.height) * SliceLen(x, x + w, frame.width) * 3,
     stats |-> frame.stats[<<x, y, w, h>>]]

(***************************************************************************)
(* VideoProcessor._analyze_slot_image                                      *)
(***************************************************************************)
EdgeWeight == Rat(4, 10)
VarianceWeight == Rat(3, 10)
IntensityWeight == Rat(3, 10)

\* Mutant: the guard on an empty crop is missing.
_analyze_slot_image_NoEmptyCheck(slot_image) ==
    LET edge_density == slot_image.stats.edge_density
        variance == slot_image.stats.variance
        mean_intensity == slot_image.stats.mean_intensity
        occupancy_score ==
            RAdd(RAdd(RMul(edge_density, EdgeWeight),
                      RMul(RMin(RDivInt(variance, 1000), One), VarianceWeight)),
                 RMul(RSub(One, RDivInt(mean_intensity, 255)), IntensityWeight))
    IN  RMin(occupancy_score, One)

_analyze_slot_image(slot_image) ==
    IF slot_image.size = 0
    THEN Zero
    ELSE LET edge_density == slot_image.stats.edge_density
             variance == slot_image.stats.variance
             mean_intensity == slot_image.stats.mean_intensity
             occupancy_score ==
                 RAdd(RAdd(RMul(edge_density, EdgeWeight),
                           RMul(RMin(RDivInt(variance, 1000), One), VarianceWeight)),
                      RMul(RSub(One, RDivInt(mean_intensity, 255)), IntensityWeight))
         IN  RMin(occupancy_score, One)

(***************************************************************************)
(* VideoProcessor._analyze_slot_occupancy                                  *)
(***************************************************************************)
OverlapThreshold == Rat(5, 10)
ImageThreshold == Rat(6, 10)

\* detection.get('class', 'vehicle')
DetectionClass(detection) ==
    IF "class" \in DOMAIN detection THEN detection.class ELSE "vehicle"

\* Mutant: "det_confidence >= best_confidence", so a later detection of
\* equal confidence replaces the earlier one.
ScanStep_LaterWinsTies(acc, box, detection) ==
    LET det_confidence == detection.confidence
        overlap == _calculate_overlap(box, detection.bbox)
    IN  IF RLt(OverlapThreshold, overlap) /\ RLe(acc.best_confidence, det_confidence)
        THEN [is_occupied |-> TRUE,
              best_confidence |-> det_confidence,
              vehicle_type |-> DetectionClass(detection),
              detection_box |-> detection.bbox]
        ELSE acc

\* One iteration of the loop over the detections (lines 294-309).
ScanStep(acc, box, detection) ==
    LET det_confidence == detection.confidence
        overlap == _calculate_overlap(box, detection.bbox)
    IN  IF RLt(OverlapThreshold, overlap) /\ RLt(acc.best_confidence, det_confidence)
        THEN [is_occupied |-> TRUE,
              best_confidence |-> det_confidence,
              vehicle_type |-> DetectionClass(detection),
              detection_box |-> detection.bbox]
        ELSE acc

RECURSIVE ScanDetections(_, _, _)
ScanDetections(acc, box, detections) ==
    IF detections = <<>>
    THEN acc
    ELSE ScanDetections(ScanStep(acc, box, Head(detections)), box, Tail(detections))

_analyze_slot_occupancy(frame, slot, detections) ==
    LET x == slot.coordinates.x
        y == slot.coordinates.y
        w == slot.coordinates.width
        h == slot.coordinates.height
        slot_region == SlotRegion(frame, x, y, w, h)
        start == [is_occupied |-> FALSE, best_confidence |-> Zero,
                  vehicle_type |-> None, detection_box |-> NoBox]
        scan == ScanDetections(start, <<x, y, w, h>>, detections)
        occupancy_score == _analyze_slot_image(slot_region)
    IN  IF ~scan.is_occupied
        THEN [slot_id |-> slot.id,
              slot_number |-> slot.slot_number,
              is_occupied |-> RLt(ImageThreshold, occupancy_score),
              confidence |-> occupancy_score,
              vehicle_type |-> scan.vehicle_type,
              detection_box |-> scan.detection_box]
        ELSE [slot_id |-> slot.id,
              slot_number |-> slot.slot_number,
              is_occupied |-> scan.is_occupied,
              confidence |-> scan.best_confidence,
              vehicle_type |-> scan.vehicle_type,
              detection_box |-> scan.detection_box]

(***************************************************************************)
(* VideoProcessor._analyze_slot_duration                                   *)
(***************************************************************************)
DefaultDuration == 1800
BaseDuration == 1800
DefaultConfidence == Rat(5, 10)
StabilityThreshold == Rat(8, 10)

\* Mutant: prev_status is not updated after a change.
RECURSIVE CountChanges_NoPrevUpdate(_, _)
CountChanges_NoPrevUpdate(prev_status, rest) ==
    IF rest = <<>>
    THEN 0
    ELSE (IF Head(rest).is_occupied # prev_status THEN 1 ELSE 0)
         + CountChanges_NoPrevUpdate(prev_status, Tail(rest))

\* The loop over timeline[1:] (lines 338-344).
RECURSIVE CountChanges(_, _)
CountChanges(prev_status, rest) ==
    IF rest = <<>>
    THEN 0
    ELSE IF Head(rest).is_occupied # prev_status
         THEN 1 + CountChanges(Head(rest).is_occupied, Tail(rest))
         ELSE CountChanges(prev_status, Tail(rest))

RECURSIVE OccupiedCount(_)
OccupiedCount(timeline) ==
    IF timeline = <<>>
    THEN 0
    ELSE (IF Head(timeline).is_occupied THEN 1 ELSE 0) + OccupiedCount(Tail(timeline))

RECURSIVE ConfidenceSum(_)
ConfidenceSum(timeline) ==
    IF timeline = <<>>
    THEN Zero
    ELSE RAdd(Head(timeline).confidence, ConfidenceSum(Tail(timeline)))

\* Mutant: the empty timeline predicts no stay at all.
EmptyTimelineResult_ZeroDuration ==
    [final_status |-> FALSE,
     confidence |-> DefaultConfidence,
     predicted_duration |-> 0,
     changes |-> 0,
     stability |-> Zero]

\* The dictionary returned for an empty timeline (lines 328-335).
EmptyTimelineResult ==
    [final_status |-> FALSE,
     confidence |-> DefaultConfidence,
     predicted_duration |-> DefaultDuration,
     changes |-> 0,
     stability |-> Zero]

\* Mutant: the stability is taken for 1 whatever the changes.
Stability_Undiscounted(changes, timeline) == One

\* stability = max(0, 1 - (changes / len(timeline)))
Stability(changes, timeline) ==
    RMax(Zero, RSub(One, Rat(changes, Len(timeline))))

\* Mutant: "occupied_count >= len(timeline) / 2".
FinalStatus_AtLeastHalf(timeline) ==
    RLe(Rat(Len(timeline), 2), Rat(OccupiedCount(timeline), 1))

\* final_status = occupied_count > len(timeline) / 2
FinalStatus(timeline) ==
    RLt(Rat(Len(timeline), 2), Rat(OccupiedCount(timeline), 1))

\* Mutant: "stability >= 0.8".
PredictedDuration_AtLeast(final_status, stability) ==
    IF final_status
    THEN IF RLe(StabilityThreshold, stability)
         THEN BaseDuration * 2
         ELSE BaseDuration
    ELSE 0

\* The duration prediction (lines 354-362).
PredictedDuration(final_status, stability) ==
    IF final_status
    THEN IF RLt(StabilityThreshold, stability)
         THEN BaseDuration * 2
         ELSE BaseDuration
    ELSE 0

_analyze_slot_duration(timeline) ==
    IF timeline = <<>>
    THEN EmptyTimelineResult
    ELSE LET changes == CountChanges(timeline[1].is_occupied, Tail(timeline))
             stability == Stability(changes, timeline)
             final_status == FinalStatus(timeline)
             predicted_duration == PredictedDuration(final_status, stability)
             avg_confidence == RDivInt(ConfidenceSum(timeline), Len(timeline))
         IN  [final_status |-> final_status,
              confidence |-> RMul(avg_confidence, stability),
              predicted_duration |-> predicted_duration,
              changes |-> changes,
              stability |-> stability]

(***************************************************************************)
(* ParkingDetector (parking_detector.py).                                  *)
(***************************************************************************)
ConfidenceThreshold == Rat(5, 10)
NmsThreshold == Rat(4, 10)

\* self.vehicle_classes: the COCO class ids of vehicles.
VehicleClasses == (2 :> "car") @@ (3 :> "motorcycle") @@ (5 :> "bus") @@ (7 :> "truck")

\* A ParkingDetector after __init__ and _load_model: without ultralytics
\* the model is None; with it the model is the YOLO object, or None when
\* loading raised.
Detector(available, model) ==
    [YOLO_AVAILABLE |-> available,
     model |-> model,
     model_path |-> None,
     confidence_threshold |-> ConfidenceThreshold,
     nms_threshold |-> NmsThreshold]

Detectors == {Detector(FALSE, None), Detector(TRUE, None), Detector(TRUE, "YOLO")}

\* np.random.randint(low, high): ValueError when the range is empty; of
\* the values it can return the model takes the two ends of the range.
RandintRaises(low, high) == low >= high

RandintEnds(low, high) == {low, high - 1}

\* The four draws of one iteration of the loop (lines 146-149), with the
\* confidence drawn on line 157.
MockDraws(frame) ==
    {[x |-> x, y |-> yh[1], w |-> wc[1], h |-> yh[2], confidence |-> wc[2]] :
        x \in RandintEnds(0, frame.width - 100),
        yh \in {<<0, 40>>, <<frame.height - 61, 79>>},
        wc \in {<<80, Rat(6, 10)>>, <<149, Rat(9, 10)>>}}

\* Some iteration of the loop draws from an empty range.
MockRaises(frame, num_detections) ==
    /\ num_detections > 0
    /\ \/ RandintRaises(0, frame.width - 100)
       \/ RandintRaises(0, frame.height - 60)

\* num_detections = np.random.randint(0, 5)
MockCounts == 0..4

\* detect_vehicles can raise on this frame: the detector is, or falls back
\* to, the mock one, which draws a position from an empty range.
DetectorCanRaise(frame) == \E num_detections \in MockCounts : MockRaises(frame, num_detections)

\* Mutant: the position is not clamped against the frame.
MockDetection_NoClamp(frame, draw) ==
    [bbox |-> <<draw.x, draw.y, draw.w, draw.h>>,
     confidence |-> draw.confidence,
     class_id |-> 2,
     class |-> "car"]

\* Lines 151-160: the position clamped against the frame, and the entry.
MockDetection(frame, draw) ==
    [bbox |-> <<IMin(draw.x, frame.width - draw.w),
                IMin(draw.y, frame.height - draw.h),
                draw.w, draw.h>>,
     confidence |-> draw.confidence,
     class_id |-> 2,
     class |-> "car"]

\* What a call of the detector hands back: the exception it raised or the
\* detection list it returned, and whether the list is synthetic.
Raised(exception) == [raised |-> exception, detections |-> <<>>, synthetic |-> TRUE]

Returned(detections, synthetic) ==
    [raised |-> None, detections |-> detections, synthetic |-> synthetic]

\* ParkingDetector._mock_detect_vehicles, draws being the random draws of
\* its num_detections iterations.
_mock_detect_vehicles(frame, draws) ==
    IF MockRaises(frame, Len(draws))
    THEN Raised("ValueError")
    ELSE Returned([i \in 1..Len(draws) |-> MockDetection(frame, draws[i])], TRUE)

\* Lines 107-119: one box of the model's results as a detection.
BoxDetection(box) ==
    [bbox |-> <<box.xyxy[1], box.xyxy[2],
                box.xyxy[3] - box.xyxy[1], box.xyxy[4] - box.xyxy[2]>>,
     confidence |-> box.conf,
     class_id |-> box.cls,
     class |-> VehicleClasses[box.cls]]

\* Lines 102-119: the boxes of a vehicle class, in the model's order.
RECURSIVE VehicleDetections(_)
VehicleDetections(boxes) ==
    IF boxes = <<>>
    THEN <<>>
    ELSE IF Head(boxes).cls \in DOMAIN VehicleClasses
         THEN <<BoxDetection(Head(boxes))>> \o VehicleDetections(Tail(boxes))
         ELSE VehicleDetections(Tail(boxes))

\* ParkingDetector.detect_vehicles, inference being what self.model(frame)
\* does on this frame: raise, or return boxes.
detect_vehicles(detector, frame, inference, draws) ==
    IF detector.model = None
    THEN _mock_detect_vehicles(frame, draws)
    ELSE IF inference.raises
         THEN _mock_detect_vehicles(frame, draws)
         ELSE Returned(VehicleDetections(inference.boxes), FALSE)

\* ParkingDetector.get_model_info
get_model_info(detector) ==
    IF detector.model = None
    THEN [model_type |-> "mock", model_path |-> None, available |-> FALSE]
    ELSE [model_type |-> "YOLO",
          model_path |-> detector.model_path,
          available |-> detector.YOLO_AVAILABLE,
          confidence_threshold |-> detector.confidence_threshold,
          nms_threshold |-> detector.nms_threshold,
          vehicle_classes |-> VehicleClasses]

(***************************************************************************)
(* A VideoProcessor after __init__, before any process_video call.         *)
(***************************************************************************)
NoValue == <<>>

\* No video I/O and no detector call yet.
NoIO == [opens |-> 0, reads |-> 0, detects |-> 0]

ProcessorIdle ==
    /\ pc = "idle"
    /\ analysis_type = NoValue
    /\ slot_config = NoValue
    /\ cap = [opened |-> FALSE, frames |-> 0, pos |-> 0]
    /\ frame_count = 0
    /\ slot_detections = <<>>
    /\ slot_timeline = NoValue
    /\ processing_stats = [total_frames |-> 0, processed_frames |-> 0]
    /\ occupancy_results = NoValue
    /\ duration_results = NoValue
    /\ final_results = NoValue
    /\ error = NoValue
    /\ verdicts = {}
    /\ sampled = <<>>
    /\ io = NoIO
    /\ classified = {}
    /\ calls = 0
    /\ reports = <<>>
    /\ returned = <<>>

\* main() has not been entered.
CliIdle ==
    /\ slot_config_str = NoValue
    /\ cli = NoValue

RunIdle == ProcessorIdle /\ CliIdle

\* No call of detect_vehicles, of non_max_suppression or of the overlap
\* functions yet.
UtilIdle ==
    /\ detIn = NoValue
    /\ detOut = NoValue
    /\ nmsIn = NoValue
    /\ nmsOut = NoValue
    /\ ovIn = NoValue
    /\ ovOut = NoValue

(***************************************************************************)
(* Inputs of the classifier calls.                                         *)
(***************************************************************************)
Coordinates(x, y, w, h) == [x |-> x, y |-> y, width |-> w, height |-> h]

SlotDef(id, number, coords) == [id |-> id, slot_number |-> number, coordinates |-> coords]

SlotBox(slot) ==
    <<slot.coordinates.x, slot.coordinates.y, slot.coordinates.width, slot.coordinates.height>>

\* A slot inside the frame, a slot of zero width and a slot beyond the
\* right edge of the frame (the last two crop to zero pixels).
ClsSlots ==
    {SlotDef(1, 1, Coordinates(0, 0, 4, 4)),
     SlotDef(2, 2, Coordinates(4, 0, 0, 4)),
     SlotDef(3, 3, Coordinates(FrameWidth, 0, 4, 4))}

\* What OpenCV measures on a crop: Canny edge density, grey-level variance
\* and mean grey level.  Uniform mid-grey, a dark textured region, a region
\* scoring exactly 0.6, and a bright lightly textured region.
Stats(ed, variance, mean) ==
    [edge_density |-> ed, variance |-> variance, mean_intensity |-> mean]

UniformGray == Stats(Zero, Zero, Rat(128, 1))
DarkTextured == Stats(Rat(1, 2), Rat(2000, 1), Rat(51, 1))
Borderline == Stats(Rat(1, 2), Rat(2000, 1), Rat(170, 1))
BrightTextured == Stats(Rat(1, 4), Rat(500, 1), Rat(204, 1))

ImageStats == {UniformGray, DarkTextured, Borderline, BrightTextured}

Frame(stats) == [height |-> FrameHeight, width |-> FrameWidth, stats |-> stats]

Detection(bbox, confidence, class) ==
    [bbox |-> bbox, confidence |-> confidence, class |-> class]

\* Detections around the slot (0,0,4,4): the same box (overlap 1), three
\* quarters of it (3/4), half of it (exactly 1/2) and a box beside it (0).
ClsDetections ==
    {Detection(<<0, 0, 4, 4>>, Rat(9, 10), "car"),
     Detection(<<0, 0, 4, 4>>, Rat(6, 10), "truck"),
     Detection(<<0, 0, 4, 3>>, Rat(9, 10), "bus"),
     Detection(<<0, 0, 4, 3>>, One, "motorcycle"),
     Detection(<<0, 0, 4, 4>>, Zero, "car"),
     Detection(<<0, 0, 4, 2>>, One, "car"),
     Detection(<<4, 0, 4, 4>>, Rat(9, 10), "car"),
     [bbox |-> <<0, 0, 4, 4>>, confidence |-> Rat(6, 10)]}

NoCall == <<>>

InitClassify ==
    /\ \E slot \in ClsSlots, stats \in ImageStats, k \in 0..MaxDets :
          \E detections \in [1..k -> ClsDetections] :
          clsIn = [frame |-> Frame([r \in {SlotBox(slot)} |-> stats]),
                   slot |-> slot,
                   detections |-> detections]
    /\ clsOut = NoCall
    /\ estIn = <<>>
    /\ estOut = NoCall
    /\ RunIdle
    /\ UtilIdle

Classify ==
    /\ clsOut = NoCall
    /\ clsOut' = <<_analyze_slot_occupancy(clsIn.frame, clsIn.slot, clsIn.detections)>>
    /\ UNCHANGED <<clsIn, estVars, detVars, nmsVars, ovVars, runVars, cliVars>>

NextClassify == Classify

SpecClassify == InitClassify /\ [][NextClassify]_vars

(***************************************************************************)
(* Inputs of the estimator calls.                                          *)
(***************************************************************************)
DurationInterval == 15

TimelineConfidences == {Rat(5, 10), Rat(9, 10)}

\* A timeline as _process_duration_analysis builds it: the k-th entry is
\* the verdict on frame 15 * (k - 1).
Timeline(k, f) ==
    [i \in 1..k |-> [frame |-> DurationInterval * (i - 1),
                     is_occupied |-> f[i][1],
                     confidence |-> f[i][2]]]

InitEstimate ==
    /\ \E k \in 0..MaxTimeline :
          \E f \in [1..k -> BOOLEAN \X TimelineConfidences] : estIn = Timeline(k, f)
    /\ estOut = NoCall
    /\ clsIn = <<>>
    /\ clsOut = NoCall
    /\ RunIdle
    /\ UtilIdle

Estimate ==
    /\ estOut = NoCall
    /\ estOut' = <<_analyze_slot_duration(estIn)>>
    /\ UNCHANGED <<clsVars, estIn, detVars, nmsVars, ovVars, runVars, cliVars>>

NextEstimate == Estimate

SpecEstimate == InitEstimate /\ [][NextEstimate]_vars

(***************************************************************************)
(* Calls of detect_vehicles.                                               *)
(***************************************************************************)
FrameShape(height, width) == [height |-> height, width |-> width]

\* A camera frame, a frame narrower and lower than the largest mock box, the
\* smallest frame that holds the largest mock box, and a frame on which the
\* ranges of the mock positions are empty.
DetFrames ==
    {FrameShape(480, 640), FrameShape(70, 120), FrameShape(79, 149), FrameShape(60, 100)}

Box(xyxy, conf, cls) == [xyxy |-> xyxy, conf |-> conf, cls |-> cls]

\* What self.model(frame) does: raise; find nothing; find a car; find a
\* person, a car and a truck over the car.
Inference(raises, boxes) == [raises |-> raises, boxes |-> boxes]

Inferences ==
    {Inference(TRUE, <<>>),
     Inference(FALSE, <<>>),
     Inference(FALSE, <<Box(<<10, 10, 110, 60>>, Rat(9, 10), 2)>>),
     Inference(FALSE, <<Box(<<200, 10, 240, 110>>, Rat(8, 10), 0),
                        Box(<<10, 10, 110, 60>>, Rat(9, 10), 2),
                        Box(<<10, 10, 110, 50>>, Rat(7, 10), 7)>>)}

InitDetect ==
    /\ \E detector \in Detectors, frame \in DetFrames, inference \in Inferences :
          detIn = [detector |-> detector, frame |-> frame, inference |-> inference]
    /\ detOut = NoCall
    /\ clsIn = <<>>
    /\ clsOut = NoCall
    /\ estIn = <<>>
    /\ estOut = NoCall
    /\ nmsIn = NoValue
    /\ nmsOut = NoValue
    /\ ovIn = NoValue
    /\ ovOut = NoValue
    /\ RunIdle

DetectVehicles ==
    /\ detOut = NoCall
    /\ \E num_detections \in MockCounts :
          \E draws \in [1..num_detections -> MockDraws(detIn.frame)] :
             detOut' = <<detect_vehicles(detIn.detector, detIn.frame, detIn.inference, draws)>>
    /\ UNCHANGED <<clsVars, estVars, detIn, nmsVars, ovVars, runVars, cliVars>>

NextDetect == DetectVehicles

SpecDetect == InitDetect /\ [][NextDetect]_vars

(***************************************************************************)
(* Calls of non_max_suppression, on the input and then on its own output.  *)
(***************************************************************************)
MaxNms == 3         \* longest detection list handed to non_max_suppression

\* Around the box (0,0,4,4): half of it (IoU exactly 0.5), three quarters
\* of it, a box beside it, a box across both (IoU 1/3), and a box two and a
\* half times as wide (IoU exactly 0.4); several share a confidence.
NmsDetections ==
    {Detection(<<0, 0, 4, 4>>, Rat(9, 10), "car"),
     Detection(<<0, 0, 4, 2>>, Rat(9, 10), "truck"),
     Detection(<<0, 0, 4, 3>>, Rat(8, 10), "car"),
     Detection(<<4, 0, 4, 4>>, Rat(8, 10), "bus"),
     Detection(<<2, 0, 4, 4>>, Rat(6, 10), "car"),
     Detection(<<0, 0, 10, 4>>, Rat(9, 10), "bus")}

\* The default of the parameter and the detector's nms_threshold.
NmsThresholds == {Rat(5, 10), NmsThreshold}

InitSuppress ==
    /\ \E k \in 0..MaxNms, iou_threshold \in NmsThresholds :
          \E detections \in [1..k -> NmsDetections] :
             nmsIn = [detections |-> detections, iou_threshold |-> iou_threshold]
    /\ nmsOut = <<>>
    /\ clsIn = <<>>
    /\ clsOut = NoCall
    /\ estIn = <<>>
    /\ estOut = NoCall
    /\ detIn = NoValue
    /\ detOut = NoValue
    /\ ovIn = NoValue
    /\ ovOut = NoValue
    /\ RunIdle

Suppress ==
    /\ Len(nmsOut) < 2
    /\ nmsOut' = Append(nmsOut,
                        non_max_suppression(IF nmsOut = <<>>
                                            THEN nmsIn.detections
                                            ELSE nmsOut[Len(nmsOut)],
                                            nmsIn.iou_threshold))
    /\ UNCHANGED <<clsVars, estVars, detVars, nmsIn, ovVars, runVars, cliVars>>

NextSuppress == Suppress

SpecSuppress == InitSuppress /\ [][NextSuppress]_vars

(***************************************************************************)
(* Calls of the overlap functions on two boxes, in both orders.            *)
(***************************************************************************)
MaxCoord == 2       \* largest position and extent of the boxes compared

\* Boxes (x, y, w, h), with widths and heights that are negative or zero.
OvBoxes == (0..MaxCoord) \X (0..MaxCoord) \X (-1..MaxCoord) \X (-1..2)

InitOverlap ==
    /\ \E a \in OvBoxes, b \in OvBoxes : ovIn = <<a, b>>
    /\ ovOut = NoCall
    /\ clsIn = <<>>
    /\ clsOut = NoCall
    /\ estIn = <<>>
    /\ estOut = NoCall
    /\ detIn = NoValue
    /\ detOut = NoValue
    /\ nmsIn = NoValue
    /\ nmsOut = NoValue
    /\ RunIdle

Overlap ==
    /\ ovOut = NoCall
    /\ ovOut' = <<[ab |-> _calculate_overlap(ovIn[1], ovIn[2]),
                   ba |-> _calculate_overlap(ovIn[2], ovIn[1]),
                   aa |-> _calculate_overlap(ovIn[1], ovIn[1]),
                   iou_ab |-> calculate_iou(ovIn[1], ovIn[2]),
                   iou_ba |-> calculate_iou(ovIn[2], ovIn[1]),
                   iou_aa |-> calculate_iou(ovIn[1], ovIn[1])]>>
    /\ UNCHANGED <<clsVars, estVars, detVars, nmsVars, ovIn, runVars, cliVars>>

NextOverlap == Overlap

SpecOverlap == InitOverlap /\ [][NextOverlap]_vars

(***************************************************************************)
(* process_video: its inputs.                                              *)
(***************************************************************************)
OccupancyInterval == 30

BoxP == <<0, 0, 4, 4>>
BoxQ == <<4, 0, 4, 4>>

SlotP == SlotDef(1, 1, Coordinates(0, 0, 4, 4))
SlotQ == SlotDef(2, 2, Coordinates(4, 0, 4, 4))
\* A second slot carrying the id of SlotP, which parse_slot_config accepts.
SlotR == SlotDef(1, 3, Coordinates(4, 0, 4, 4))

\* A slot that reaches beyond the right edge of the frame.
BoxOut == <<FrameWidth - 2, 0, 4, 4>>
SlotOut == SlotDef(4, 4, Coordinates(FrameWidth - 2, 0, 4, 4))

SlotConfigs == {<<>>, <<SlotP>>, <<SlotP, SlotQ>>, <<SlotP, SlotR>>, <<SlotOut>>}

\* Slots that parse_slot_config rejects and process_video is handed by a
\* caller that did not parse: no id, no slot_number, no width.
SlotNoId == [slot_number |-> 1, coordinates |-> Coordinates(0, 0, 4, 4)]
SlotNoNumber == [id |-> 2, coordinates |-> Coordinates(4, 0, 4, 4)]
SlotNoWidth == [id |-> 1, slot_number |-> 1, coordinates |-> [x |-> 0, y |-> 0, height |-> 4]]

MalformedConfigs == {<<SlotNoId>>, <<SlotP, SlotNoNumber>>, <<SlotNoWidth, SlotQ>>}

\* The file at video_path: whether it exists, carries a video extension,
\* opens in OpenCV, and the frames it holds.
Video(exists, extension, opens, frames) ==
    [exists |-> exists, valid_extension |-> extension, opens |-> opens, frames |-> frames]

Videos ==
    {Video(FALSE, TRUE, FALSE, 0), Video(TRUE, FALSE, TRUE, 1),
     Video(TRUE, TRUE, FALSE, 0), Video(TRUE, TRUE, TRUE, 0)}
    \cup {Video(TRUE, TRUE, TRUE, frames) : frames \in 1..MaxFrames}

\* utils.validate_video_file: the verdict, with the handles it opened and
\* the frames it decoded on the way.
validate_video_file(video) ==
    IF ~video.exists
    THEN [valid |-> FALSE, opens |-> 0, reads |-> 0]
    ELSE IF ~video.valid_extension
         THEN [valid |-> FALSE, opens |-> 0, reads |-> 0]
         ELSE IF ~video.opens
              THEN [valid |-> FALSE, opens |-> 0, reads |-> 0]
              ELSE IF video.frames > 0
                   THEN [valid |-> TRUE, opens |-> 1, reads |-> 1]
                   ELSE [valid |-> FALSE, opens |-> 1, reads |-> 0]

\* _analyze_slot_occupancy raises KeyError on this slot: slot['coordinates']
\* (line 282), a coordinate (line 285), slot['id'] or slot['slot_number']
\* (lines 318-319).
SlotRaises(slot) ==
    \/ "coordinates" \notin DOMAIN slot
    \/ ~({"x", "y", "width", "height"} \subseteq DOMAIN slot.coordinates)
    \/ "id" \notin DOMAIN slot
    \/ "slot_number" \notin DOMAIN slot

\* The first slot on which the loop over slot_config raises, 0 for none.
RECURSIVE FirstFault(_, _)
FirstFault(config, i) ==
    IF i > Len(config)
    THEN 0
    ELSE IF SlotRaises(config[i]) THEN i ELSE FirstFault(config, i + 1)

\* The slots the loop over slot_config handles before it ends or raises.
Handled(config) ==
    IF FirstFault(config, 1) = 0 THEN config ELSE SubSeq(config, 1, FirstFault(config, 1) - 1)

\* {slot['id']: [] for slot in slot_config} raises KeyError (line 185).
TimelineRaises(config) == \E i \in 1..Len(config) : "id" \notin DOMAIN config[i]

\* The analysis_type values a caller passes: the three the command line
\* offers, and one it does not.
AnalysisTypes == {"occupancy", "duration", "full", "summary"}

\* What one sampled frame shows and what detect_vehicles returns on it: an
\* empty lot; a car on the first slot; a truck on the first slot beside a
\* dark textured second slot; a dark textured first slot with no detection.
Scene(statsP, statsQ, detections) ==
    [frame |-> Frame((BoxP :> statsP) @@ (BoxQ :> statsQ) @@ (BoxOut :> statsQ)),
     detections |-> detections]

Scenes ==
    {Scene(UniformGray, UniformGray, <<>>),
     Scene(UniformGray, UniformGray, <<Detection(BoxP, Rat(9, 10), "car")>>),
     Scene(UniformGray, DarkTextured, <<Detection(BoxP, Rat(6, 10), "truck")>>),
     Scene(DarkTextured, UniformGray, <<>>)}

(***************************************************************************)
(* VideoProcessor._process_occupancy_analysis                              *)
(***************************************************************************)
\* Mutant: the first frame of every interval is skipped and the second taken.
ShouldSample_Second(count, frame_interval) == count % frame_interval = 1

\* frame_count % frame_interval == 0
ShouldSample(count, frame_interval) == count % frame_interval = 0

\* next((s for s in slot_detections if s['slot_id'] == slot['id']), None),
\* as the index of that entry, 0 for None.
RECURSIVE ExistingSlot(_, _, _)
ExistingSlot(detections, id, i) ==
    IF i > Len(detections)
    THEN 0
    ELSE IF detections[i].slot_id = id THEN i ELSE ExistingSlot(detections, id, i + 1)

\* Lines 144-155: overwrite the slot's entry by a verdict of higher
\* confidence, or append the slot's first verdict.
RetainVerdict(detections, slot, slot_result) ==
    LET existing_slot == ExistingSlot(detections, slot.id, 1)
    IN  IF existing_slot # 0
        THEN IF RLt(detections[existing_slot].confidence, slot_result.confidence)
             THEN [detections EXCEPT ![existing_slot] = slot_result]
             ELSE detections
        ELSE Append(detections, slot_result)

\* The loop over slot_config on one sampled frame (lines 139-155).
RECURSIVE OccupancyFrame(_, _, _, _)
OccupancyFrame(detections, scene, config, i) ==
    IF i > Len(config)
    THEN detections
    ELSE OccupancyFrame(
             RetainVerdict(detections, config[i],
                           _analyze_slot_occupancy(scene.frame, config[i], scene.detections)),
             scene, config, i + 1)

\* sum(... for entry in entries) / len(entries), 0 for no entries.
MeanConfidence(entries) ==
    IF entries = <<>> THEN Zero ELSE RDivInt(ConfidenceSum(entries), Len(entries))

\* Mutant: the rate is left a fraction of 1.
OccupancyRate_Fraction(occupied_slots, config) ==
    IF config # <<>> THEN Rat(occupied_slots, Len(config)) ELSE Zero

\* (occupied_slots / len(slot_config)) * 100 if slot_config else 0
OccupancyRate(occupied_slots, config) ==
    IF config # <<>> THEN Rat(occupied_slots * 100, Len(config)) ELSE Zero

\* Lines 161-178.
OccupancyResults(detections, config) ==
    LET occupied_slots == OccupiedCount(detections)
        avg_confidence == MeanConfidence(detections)
    IN  [slot_detections |-> detections,
         vehicle_count |-> occupied_slots,
         occupancy_rate |-> OccupancyRate(occupied_slots, config),
         confidence_scores |-> [overall |-> avg_confidence,
                                vehicle_detection |-> avg_confidence,
                                slot_classification |-> avg_confidence]]

(***************************************************************************)
(* VideoProcessor._process_duration_analysis                               *)
(***************************************************************************)
SlotIds(config) == {config[i].id : i \in 1..Len(config)}

\* The loop over slot_config on one sampled frame (lines 197-203).
RECURSIVE DurationFrame(_, _, _, _, _)
DurationFrame(timeline, scene, count, config, i) ==
    IF i > Len(config)
    THEN timeline
    ELSE LET slot_result == _analyze_slot_occupancy(scene.frame, config[i], scene.detections)
             entry == [frame |-> count,
                       is_occupied |-> slot_result.is_occupied,
                       confidence |-> slot_result.confidence]
         IN  DurationFrame([timeline EXCEPT ![config[i].id] = Append(@, entry)],
                           scene, count, config, i + 1)

\* Lines 211-221: one report per configured slot.
DurationDetection(slot, timeline) ==
    LET duration_analysis == _analyze_slot_duration(timeline[slot.id])
    IN  [slot_id |-> slot.id,
         slot_number |-> slot.slot_number,
         is_occupied |-> duration_analysis.final_status,
         confidence |-> duration_analysis.confidence,
         predicted_duration |-> duration_analysis.predicted_duration,
         occupancy_changes |-> duration_analysis.changes,
         stability_score |-> duration_analysis.stability]

\* Lines 209-235.
DurationResults(timeline, config) ==
    LET detections == [i \in 1..Len(config) |-> DurationDetection(config[i], timeline)]
        occupied_slots == OccupiedCount(detections)
    IN  [slot_detections |-> detections,
         vehicle_count |-> occupied_slots,
         occupancy_rate |-> OccupancyRate(occupied_slots, config),
         confidence_scores |-> [overall |-> RDivInt(ConfidenceSum(detections), Len(detections)),
                                vehicle_detection |-> Rat(85, 100),
                                slot_classification |-> Rat(80, 100)]]

(***************************************************************************)
(* VideoProcessor._process_full_analysis                                   *)
(***************************************************************************)
\* Mutant: the merged confidence is the duration pass's alone.
MergedDetection_DurationConfidence(slot, occupancy_data, duration_data) ==
    [slot_id |-> slot.id,
     slot_number |-> slot.slot_number,
     is_occupied |-> occupancy_data.is_occupied,
     confidence |-> duration_data.confidence,
     predicted_duration |-> duration_data.predicted_duration,
     vehicle_type |-> occupancy_data.vehicle_type,
     detection_box |-> occupancy_data.detection_box,
     stability_score |-> duration_data.stability_score]

\* Lines 251-263: the merged report of the i-th configured slot.
MergedDetection(slot, occupancy_data, duration_data) ==
    [slot_id |-> slot.id,
     slot_number |-> slot.slot_number,
     is_occupied |-> occupancy_data.is_occupied,
     confidence |-> RMax(occupancy_data.confidence, duration_data.confidence),
     predicted_duration |-> duration_data.predicted_duration,
     vehicle_type |-> occupancy_data.vehicle_type,
     detection_box |-> occupancy_data.detection_box,
     stability_score |-> duration_data.stability_score]

\* occupancy_results['slot_detections'][i] raises IndexError when the
\* occupancy pass retained fewer entries than there are configured slots.
MergeRaises(occupancy, config) == Len(occupancy.slot_detections) < Len(config)

\* Lines 248-278.
FullResults(occupancy, duration, config) ==
    LET final_detections ==
            [i \in 1..Len(config) |->
                MergedDetection(config[i], occupancy.slot_detections[i],
                                duration.slot_detections[i])]
        occupied_slots == OccupiedCount(final_detections)
    IN  [slot_detections |-> final_detections,
         vehicle_count |-> occupied_slots,
         occupancy_rate |-> OccupancyRate(occupied_slots, config),
         confidence_scores |->
             [overall |-> RDivInt(RAdd(occupancy.confidence_scores.overall,
                                       duration.confidence_scores.overall), 2),
              vehicle_detection |-> Rat(88, 100),
              slot_classification |-> Rat(82, 100)]]

(***************************************************************************)
(* VideoProcessor.process_video, one step per frame read.                  *)
(***************************************************************************)
\* Lines 56-89: validation, opening the capture, entering the first pass.
ProcessVideoOn(videos, configs) ==
    /\ pc = "idle"
    /\ \E video \in videos, config \in configs, type \in AnalysisTypes :
          LET validation == validate_video_file(video)
              validated == [NoIO EXCEPT !.opens = validation.opens,
                                        !.reads = validation.reads]
          IN  /\ analysis_type' = type
              /\ slot_config' = config
              /\ \/ /\ ~validation.valid
                    /\ error' = "Invalid video file"
                    /\ pc' = "raised"
                    /\ io' = validated
                    /\ UNCHANGED <<cap, processing_stats, slot_timeline>>
                 \/ /\ validation.valid
                    /\ config = <<>>
                    /\ error' = "Slot configuration is required"
                    /\ pc' = "raised"
                    /\ io' = validated
                    /\ UNCHANGED <<cap, processing_stats, slot_timeline>>
                 \/ /\ validation.valid
                    /\ config # <<>>
                    /\ cap' = [opened |-> TRUE, frames |-> video.frames, pos |-> 0]
                    /\ io' = [validated EXCEPT !.opens = @ + 1]
                    /\ processing_stats' = [processing_stats EXCEPT
                                               !.total_frames = video.frames]
                    /\ IF type = "duration" /\ TimelineRaises(config)
                       THEN /\ error' = "KeyError"
                            /\ pc' = "raised"
                            /\ UNCHANGED slot_timeline
                       ELSE /\ pc' = IF type = "duration" THEN "duration" ELSE "occupancy"
                            /\ slot_timeline' = IF type = "duration"
                                                THEN [id \in SlotIds(config) |-> <<>>]
                                                ELSE slot_timeline
                            /\ UNCHANGED error
    /\ frame_count' = 0
    /\ slot_detections' = <<>>
    /\ verdicts' = {}
    /\ sampled' = <<>>
    /\ classified' = {}
    /\ calls' = calls + 1
    /\ UNCHANGED <<occupancy_results, duration_results, final_results, reports, returned>>
    /\ UNCHANGED <<clsVars, estVars, detVars, nmsVars, ovVars, cliVars>>

ProcessVideo == ProcessVideoOn(Videos, SlotConfigs \cup MalformedConfigs)

\* One iteration of the occupancy pass's loop in which cap.read() delivers
\* a frame (lines 129-159).  On a sampled frame detect_vehicles or the loop
\* over the slots may raise, which ends process_video there.
OccupancyRead ==
    /\ pc = "occupancy"
    /\ cap.pos < cap.frames
    /\ cap' = [cap EXCEPT !.pos = @ + 1]
    /\ \/ /\ ShouldSample(frame_count, OccupancyInterval)
          /\ \E scene \in Scenes :
                /\ slot_detections' =
                       OccupancyFrame(slot_detections, scene, Handled(slot_config), 1)
                /\ verdicts' = verdicts \cup
                       {_analyze_slot_occupancy(scene.frame, slot_config[i], scene.detections) :
                            i \in 1..Len(Handled(slot_config))}
          /\ sampled' = Append(sampled, cap.pos)
          /\ io' = [io EXCEPT !.reads = @ + 1, !.detects = @ + 1]
          /\ classified' = classified \cup
                 {slot_config[i] : i \in 1..Len(Handled(slot_config))}
          /\ IF FirstFault(slot_config, 1) = 0
             THEN /\ processing_stats' = [processing_stats EXCEPT !.processed_frames = @ + 1]
                  /\ frame_count' = frame_count + 1
                  /\ UNCHANGED <<pc, error>>
             ELSE /\ pc' = "raised"
                  /\ error' = "KeyError"
                  /\ UNCHANGED <<processing_stats, frame_count>>
       \/ /\ ShouldSample(frame_count, OccupancyInterval)
          /\ \E scene \in Scenes : DetectorCanRaise(scene.frame)
          /\ pc' = "raised"
          /\ error' = "ValueError"
          /\ io' = [io EXCEPT !.reads = @ + 1, !.detects = @ + 1]
          /\ UNCHANGED <<slot_detections, verdicts, processing_stats, sampled, frame_count,
                         classified>>
       \/ /\ ~ShouldSample(frame_count, OccupancyInterval)
          /\ frame_count' = frame_count + 1
          /\ io' = [io EXCEPT !.reads = @ + 1]
          /\ UNCHANGED <<slot_detections, verdicts, processing_stats, sampled, pc, error,
                         classified>>
    /\ UNCHANGED <<analysis_type, slot_config, slot_timeline, occupancy_results,
                   duration_results, final_results, calls, reports, returned>>
    /\ UNCHANGED <<clsVars, estVars, detVars, nmsVars, ovVars, cliVars>>

\* cap.read() reports the end of the video: the occupancy pass returns
\* (lines 131-132, 161-178); in full mode the capture is rewound and the
\* duration pass is entered (lines 245-246, 185-188).
OccupancyEnd ==
    /\ pc = "occupancy"
    /\ cap.pos = cap.frames
    /\ occupancy_results' = OccupancyResults(slot_detections, slot_config)
    /\ \/ /\ analysis_type = "occupancy"
          /\ pc' = "return"
          /\ UNCHANGED <<cap, frame_count, slot_timeline, sampled>>
       \/ /\ analysis_type # "occupancy"
          /\ pc' = "duration"
          /\ cap' = [cap EXCEPT !.pos = 0]
          /\ frame_count' = 0
          /\ slot_timeline' = [id \in SlotIds(slot_config) |-> <<>>]
          /\ sampled' = <<>>
    /\ verdicts' = {}
    /\ UNCHANGED <<analysis_type, slot_config, slot_detections, processing_stats,
                   duration_results, final_results, error, io, classified, calls,
                   reports, returned>>
    /\ UNCHANGED <<clsVars, estVars, detVars, nmsVars, ovVars, cliVars>>

\* One iteration of the duration pass's loop in which cap.read() delivers a
\* frame (lines 189-207).  On a sampled frame detect_vehicles or the loop
\* over the slots may raise, which ends process_video there.
DurationRead ==
    /\ pc = "duration"
    /\ cap.pos < cap.frames
    /\ cap' = [cap EXCEPT !.pos = @ + 1]
    /\ \/ /\ ShouldSample(frame_count, DurationInterval)
          /\ \E scene \in Scenes :
                slot_timeline' =
                    DurationFrame(slot_timeline, scene, frame_count, Handled(slot_config), 1)
          /\ sampled' = Append(sampled, cap.pos)
          /\ io' = [io EXCEPT !.reads = @ + 1, !.detects = @ + 1]
          /\ classified' = classified \cup
                 {slot_config[i] : i \in 1..Len(Handled(slot_config))}
          /\ IF FirstFault(slot_config, 1) = 0
             THEN /\ processing_stats' = [processing_stats EXCEPT !.processed_frames = @ + 1]
                  /\ frame_count' = frame_count + 1
                  /\ UNCHANGED <<pc, error>>
             ELSE /\ pc' = "raised"
                  /\ error' = "KeyError"
                  /\ UNCHANGED <<processing_stats, frame_count>>
       \/ /\ ShouldSample(frame_count, DurationInterval)
          /\ \E scene \in Scenes : DetectorCanRaise(scene.frame)
          /\ pc' = "raised"
          /\ error' = "ValueError"
          /\ io' = [io EXCEPT !.reads = @ + 1, !.detects = @ + 1]
          /\ UNCHANGED <<slot_timeline, processing_stats, sampled, frame_count, classified>>
       \/ /\ ~ShouldSample(frame_count, DurationInterval)
          /\ frame_count' = frame_count + 1
          /\ io' = [io EXCEPT !.reads = @ + 1]
          /\ UNCHANGED <<slot_timeline, processing_stats, sampled, pc, error, classified>>
    /\ UNCHANGED <<analysis_type, slot_config, slot_detections, occupancy_results,
                   duration_results, final_results, verdicts, calls, reports, returned>>
    /\ UNCHANGED <<clsVars, estVars, detVars, nmsVars, ovVars, cliVars>>

\* cap.read() reports the end of the video: the duration pass returns
\* (lines 191-192, 209-235); in full mode the two passes are merged
\* (lines 248-278), which raises IndexError when an occupancy entry is
\* missing.
DurationEnd ==
    /\ pc = "duration"
    /\ cap.pos = cap.frames
    /\ duration_results' = DurationResults(slot_timeline, slot_config)
    /\ \/ /\ analysis_type = "duration"
          /\ pc' = "return"
          /\ UNCHANGED error
       \/ /\ analysis_type # "duration"
          /\ ~MergeRaises(occupancy_results, slot_config)
          /\ pc' = "return"
          /\ UNCHANGED error
       \/ /\ analysis_type # "duration"
          /\ MergeRaises(occupancy_results, slot_config)
          /\ pc' = "raised"
          /\ error' = "IndexError"
    /\ UNCHANGED <<analysis_type, slot_config, cap, frame_count, slot_detections,
                   slot_timeline, processing_stats, occupancy_results, final_results,
                   verdicts, sampled, io, classified, calls, reports, returned>>
    /\ UNCHANGED <<clsVars, estVars, detVars, nmsVars, ovVars, cliVars>>

\* The results of the pass or passes that ran (lines 84-89).
Results ==
    IF analysis_type = "occupancy"
    THEN occupancy_results
    ELSE IF analysis_type = "duration"
         THEN duration_results
         ELSE FullResults(occupancy_results, duration_results, slot_config)

\* The report's 'processing_stats' entry is self.processing_stats itself,
\* not a copy of it (line 109): the report holds a reference.
SelfStats == "self.processing_stats"

\* What a holder of the report reads in it now: the entries the report
\* owns, and behind the reference the dictionary as it stands.
Deref(report) == [report EXCEPT !.processing_stats = processing_stats]

\* Lines 91-116: the capture is released and the report compiled.
Return ==
    /\ pc = "return"
    /\ cap' = [cap EXCEPT !.opened = FALSE]
    /\ final_results' = [total_frames |-> cap.frames,
                         processed_frames |-> processing_stats.processed_frames,
                         analysis_type |-> analysis_type,
                         slot_detections |-> Results.slot_detections,
                         vehicle_count |-> Results.vehicle_count,
                         occupancy_rate |-> Results.occupancy_rate,
                         confidence_scores |-> Results.confidence_scores,
                         processing_stats |-> SelfStats]
    /\ reports' = Append(reports, final_results')
    /\ returned' = Append(returned, Deref(final_results'))
    /\ pc' = "done"
    /\ UNCHANGED <<analysis_type, slot_config, frame_count, slot_detections, slot_timeline,
                   processing_stats, occupancy_results, duration_results, error,
                   verdicts, sampled, io, classified, calls>>
    /\ UNCHANGED <<clsVars, estVars, detVars, nmsVars, ovVars, cliVars>>

\* The call is over, by return or by exception: its local variables are
\* gone, the VideoProcessor and the reports it returned remain (lines
\* 28-37), and the caller may call process_video again.
NextCall ==
    /\ pc \in {"done", "raised"}
    /\ calls < MaxRuns
    /\ pc' = "idle"
    /\ analysis_type' = NoValue
    /\ slot_config' = NoValue
    /\ cap' = [opened |-> FALSE, frames |-> 0, pos |-> 0]
    /\ frame_count' = 0
    /\ slot_detections' = <<>>
    /\ slot_timeline' = NoValue
    /\ occupancy_results' = NoValue
    /\ duration_results' = NoValue
    /\ final_results' = NoValue
    /\ error' = NoValue
    /\ verdicts' = {}
    /\ sampled' = <<>>
    /\ io' = NoIO
    /\ classified' = {}
    /\ UNCHANGED <<processing_stats, calls, reports, returned>>
    /\ UNCHANGED <<clsVars, estVars, detVars, nmsVars, ovVars, cliVars>>

Init ==
    /\ clsIn = <<>>
    /\ clsOut = NoCall
    /\ estIn = <<>>
    /\ estOut = NoCall
    /\ RunIdle
    /\ UtilIdle

Next ==
    \/ ProcessVideo
    \/ OccupancyRead
    \/ OccupancyEnd
    \/ DurationRead
    \/ DurationEnd
    \/ Return

Spec == Init /\ [][Next]_vars

(***************************************************************************)
(* Several process_video calls on one VideoProcessor.                      *)
(***************************************************************************)
RunVideos ==
    {Video(FALSE, TRUE, FALSE, 0), Video(TRUE, TRUE, TRUE, 1),
     Video(TRUE, TRUE, TRUE, DurationInterval + 1)}

RunConfigs == {<<>>, <<SlotP>>}

ProcessVideoAgain == ProcessVideoOn(RunVideos, RunConfigs)

NextRuns ==
    \/ ProcessVideoAgain
    \/ OccupancyRead
    \/ OccupancyEnd
    \/ DurationRead
    \/ DurationEnd
    \/ Return
    \/ NextCall

SpecRuns == Init /\ [][NextRuns]_vars

(***************************************************************************)
(* Properties of the classifier (checked under SpecClassify).              *)
(***************************************************************************)
ClsCalled == clsOut # NoCall

ClsVerdict == clsOut[1]

ClsDet(i) == clsIn.detections[i]

ClsOverlap(i) == _calculate_overlap(SlotBox(clsIn.slot), ClsDet(i).bbox)

\* The detections that overlap the slot by more than 0.5.
ClsOverlapping == {i \in 1..Len(clsIn.detections) : RLt(OverlapThreshold, ClsOverlap(i))}

\* The verdict carries detection i.
ClsCarries(i) ==
    /\ ClsVerdict.confidence = ClsDet(i).confidence
    /\ ClsVerdict.vehicle_type = DetectionClass(ClsDet(i))
    /\ ClsVerdict.detection_box = ClsDet(i).bbox

\* The composite pixel score of the slot's crop.
ClsScore ==
    _analyze_slot_image(SlotRegion(clsIn.frame, clsIn.slot.coordinates.x,
                                   clsIn.slot.coordinates.y,
                                   clsIn.slot.coordinates.width,
                                   clsIn.slot.coordinates.height))

ClsCropSize ==
    SlotRegion(clsIn.frame, clsIn.slot.coordinates.x, clsIn.slot.coordinates.y,
               clsIn.slot.coordinates.width, clsIn.slot.coordinates.height).size

\* The verdict is the one of the pixel heuristic.
ClsFallbackVerdict ==
    /\ ClsVerdict.is_occupied = RLt(Rat(6, 10), ClsScore)
    /\ ClsVerdict.confidence = ClsScore
    /\ RLe(Zero, ClsScore) /\ RLe(ClsScore, One)
    /\ ClsVerdict.vehicle_type = None
    /\ ClsVerdict.detection_box = NoBox

\* C1: if at least one detection overlaps the slot by more than 0.5, the
\* verdict is occupied, whatever the detection's confidence in [0,1].
C1_OverlapImpliesOccupied ==
    ClsCalled /\ ClsOverlapping # {} => ClsVerdict.is_occupied

\* C2 (as claimed): when several detections overlap the slot by more than
\* 0.5, the verdict carries the confidence, type and box of the one with the
\* highest overlap, ties on overlap broken by the highest confidence.
C2_HighestOverlapWins ==
    ClsCalled /\ Cardinality(ClsOverlapping) >= 2 =>
        \E i \in ClsOverlapping :
            /\ \A j \in ClsOverlapping :
                  \/ RLt(ClsOverlap(j), ClsOverlap(i))
                  \/ /\ ClsOverlap(j) = ClsOverlap(i)
                     /\ RLe(ClsDet(j).confidence, ClsDet(i).confidence)
            /\ ClsCarries(i)

\* The first-listed detection of highest confidence among the overlapping.
ClsMostConfident ==
    CHOOSE i \in ClsOverlapping :
        \A j \in ClsOverlapping :
            \/ RLt(ClsDet(j).confidence, ClsDet(i).confidence)
            \/ ClsDet(j).confidence = ClsDet(i).confidence /\ i <= j

\* C2 (amended): when several detections overlap the slot by more than 0.5,
\* the verdict carries the confidence, type and box of the one with the
\* highest confidence, the earliest in the list on a tie, whatever their
\* overlaps; when that highest confidence is 0 the verdict carries no
\* detection and is the pixel heuristic's.
C2_HighestConfidenceWins ==
    ClsCalled /\ Cardinality(ClsOverlapping) >= 2 =>
        IF RLt(Zero, ClsDet(ClsMostConfident).confidence)
        THEN ClsCarries(ClsMostConfident) /\ ClsVerdict.is_occupied
        ELSE ClsFallbackVerdict

\* Two overlapping detections, and the verdict carries the one of lower
\* overlap and higher confidence.
C2_Witness ==
    /\ ClsCalled
    /\ \E i, j \in ClsOverlapping :
          /\ RLt(ClsOverlap(i), ClsOverlap(j))
          /\ RLt(ClsDet(j).confidence, ClsDet(i).confidence)
          /\ ClsCarries(i)
          /\ ~ClsCarries(j)

\* Some detection made the slot occupied in the loop over the detections.
ClsDetectionOccupies ==
    \E i \in ClsOverlapping : RLt(Zero, ClsDet(i).confidence)

\* C10: the pixel heuristic decides the verdict only when no detection made
\* the slot occupied; then the verdict is occupied iff the score is strictly
\* above 0.6, its confidence is the score (within [0,1]), it carries no
\* vehicle type and no box, and a crop of zero pixels scores 0 (unoccupied,
\* confidence 0).
C10_FallbackVerdict ==
    ClsCalled =>
        /\ ClsDetectionOccupies =>
              /\ ClsVerdict.is_occupied
              /\ \E i \in ClsOverlapping : ClsCarries(i)
        /\ ~ClsDetectionOccupies =>
              /\ ClsFallbackVerdict
              /\ ClsCropSize = 0 =>
                    /\ ClsScore = Zero
                    /\ ~ClsVerdict.is_occupied
                    /\ ClsVerdict.confidence = Zero

\* The fallback decided a slot with a non-empty detection list and found it
\* occupied.
C10_Witness ==
    /\ ClsCalled
    /\ clsIn.detections # <<>>
    /\ ~ClsDetectionOccupies
    /\ ClsCropSize > 0
    /\ ClsVerdict.is_occupied
    /\ ClsVerdict.detection_box = NoBox

(***************************************************************************)
(* Properties of a run of process_video (checked under Spec).              *)
(***************************************************************************)
\* The verdicts the running occupancy pass computed for the i-th slot.
SlotVerdicts(i) ==
    {v \in verdicts : v.slot_id = slot_config[i].id
                      /\ v.slot_number = slot_config[i].slot_number}

\* The verdicts the running occupancy pass computed under a slot id.
IdVerdicts(id) == {v \in verdicts : v.slot_id = id}

\* C3: in occupancy mode, after any number of sampled frames, the verdict
\* retained for each slot is one of that slot's per-frame verdicts and its
\* confidence is the maximum over that slot's verdicts so far.
C3_MaxReduction ==
    pc = "occupancy" =>
        \A i \in 1..Len(slot_config) :
            SlotVerdicts(i) # {} =>
                LET k == ExistingSlot(slot_detections, slot_config[i].id, 1)
                IN  /\ k # 0
                    /\ slot_detections[k] \in SlotVerdicts(i)
                    /\ \A v \in SlotVerdicts(i) :
                          RLe(v.confidence, slot_detections[k].confidence)

\* The same per slot id, which is how the code keys the retained verdicts:
\* one entry per id, a verdict computed under that id, of maximal confidence.
C3_MaxReductionPerId ==
    pc = "occupancy" /\ verdicts # {} =>
        \A id \in SlotIds(slot_config) :
            IdVerdicts(id) # {} =>
                /\ Cardinality({k \in 1..Len(slot_detections) :
                                   slot_detections[k].slot_id = id}) = 1
                /\ \E k \in 1..Len(slot_detections) :
                      /\ slot_detections[k] \in IdVerdicts(id)
                      /\ \A v \in IdVerdicts(id) :
                            RLe(v.confidence, slot_detections[k].confidence)

\* The entry the occupancy pass retained for a slot.
RetainedFor(slot) ==
    CHOOSE e \in {occupancy_results.slot_detections[k] :
                     k \in 1..Len(occupancy_results.slot_detections)} :
        e.slot_id = slot.id /\ e.slot_number = slot.slot_number

\* C4: in full mode the merged report of every configured slot takes
\* is_occupied from the verdict the occupancy pass retained for the slot,
\* its confidence is the larger of the two passes' confidences for the slot
\* and predicted_duration is the duration pass's estimate for the slot.
C4_FullMerge ==
    pc = "done" /\ analysis_type = "full" =>
        /\ Len(final_results.slot_detections) = Len(slot_config)
        /\ \A i \in 1..Len(slot_config) :
              LET slot == slot_config[i]
                  merged == final_results.slot_detections[i]
                  occupancy == RetainedFor(slot)
                  duration == _analyze_slot_duration(slot_timeline[slot.id])
              IN  /\ merged.slot_id = slot.id
                  /\ merged.slot_number = slot.slot_number
                  /\ occupancy.slot_id = slot.id
                  /\ occupancy.slot_number = slot.slot_number
                  /\ merged.is_occupied = occupancy.is_occupied
                  /\ RLe(occupancy.confidence, merged.confidence)
                  /\ RLe(duration.confidence, merged.confidence)
                  /\ merged.confidence \in {occupancy.confidence, duration.confidence}
                  /\ merged.predicted_duration = duration.predicted_duration

\* Occupancy-pass confidence 0.6 and duration-pass confidence 0.9 for the
\* same slot merged to 0.9.
C4_Witness ==
    /\ pc = "done"
    /\ analysis_type = "full"
    /\ \E i \in 1..Len(slot_config) :
          /\ occupancy_results.slot_detections[i].confidence = Rat(6, 10)
          /\ duration_results.slot_detections[i].confidence = Rat(9, 10)
          /\ final_results.slot_detections[i].confidence = Rat(9, 10)

\* The interval of the pass that is running or ran last.
PassInterval ==
    IF pc = "occupancy" \/ analysis_type = "occupancy" THEN 30 ELSE 15

CeilDiv(a, b) == (a + b - 1) \div b

\* C5: frames are read in order and exactly the frames whose zero-based
\* index is a multiple of the interval (30 in the occupancy pass, 15 in the
\* duration pass) reach the detector and classifier, so that a pass over F
\* frames processes ceil(F / interval) of them.
C5_Sampling ==
    pc \in {"occupancy", "duration", "return", "done"} =>
        /\ frame_count = cap.pos
        /\ Len(sampled) = CeilDiv(cap.pos, PassInterval)
        /\ \A k \in 1..Len(sampled) : sampled[k] = (k - 1) * PassInterval
        /\ pc \in {"return", "done"} => Len(sampled) = CeilDiv(cap.frames, PassInterval)

\* An occupancy run over 31 frames processed frames 0 and 30.
C5_Witness ==
    /\ pc = "done"
    /\ analysis_type = "occupancy"
    /\ cap.frames = 31
    /\ sampled = <<0, 30>>

\* The video at video_path passed validate_video_file.
VideoAccepted == error # "Invalid video file"

\* C11: process_video called with an empty slot list (and a valid video)
\* raises the configuration error, and no frame of the video has been
\* decoded before the error.
C11_EmptyConfigNoReads ==
    pc = "raised" /\ slot_config = <<>> /\ VideoAccepted =>
        /\ error = "Slot configuration is required"
        /\ io.reads = 0

\* C12: when the slot list given to process_video (with a valid video) has
\* a slot without id, slot_number or a coordinate field, the error is raised
\* before any video I/O: no handle opened, no frame read, no detector call.
C12_ConfigErrorBeforeIO ==
    pc = "raised" /\ FirstFault(slot_config, 1) # 0 /\ VideoAccepted =>
        io = NoIO

\* C13: whenever process_video has returned or raised, the video handle it
\* opened has been released.
C13_HandleReleased ==
    pc \in {"done", "raised"} => ~cap.opened

(***************************************************************************)
(* Properties of the estimator (checked under SpecEstimate).               *)
(***************************************************************************)
EstCalled == estOut # NoCall

EstResult == estOut[1]

EstOccupied == {i \in 1..Len(estIn) : estIn[i].is_occupied}

EstFlips == {i \in 1..(Len(estIn) - 1) : estIn[i].is_occupied # estIn[i + 1].is_occupied}

\* C6: final_status is true iff strictly more than half of the entries are
\* occupied.
C6_MajorityVote ==
    EstCalled => (EstResult.final_status <=> 2 * Cardinality(EstOccupied) > Len(estIn))

\* Four occupied entries of seven: occupied.
C6_Witness ==
    /\ EstCalled
    /\ Len(estIn) = 7
    /\ Cardinality(EstOccupied) = 4
    /\ EstResult.final_status

\* C7: for a non-empty timeline, changes is the number of adjacent pairs
\* whose is_occupied differ and stability is max(0, 1 - changes / len).
C7_ChangesAndStability ==
    EstCalled /\ estIn # <<>> =>
        /\ EstResult.changes = Cardinality(EstFlips)
        /\ LET c == Cardinality(EstFlips)
               n == Len(estIn)
           IN  IF c >= n
               THEN EstResult.stability = Zero
               ELSE EstResult.stability.n * n = (n - c) * EstResult.stability.d

\* A timeline that flips to occupied and back.
C7_Witness ==
    /\ EstCalled
    /\ Len(estIn) >= 3
    /\ ~estIn[1].is_occupied /\ estIn[2].is_occupied /\ ~estIn[3].is_occupied
    /\ EstResult.changes >= 2
    /\ RLt(EstResult.stability, One)

\* C8: for a non-empty timeline, predicted_duration is 3600 when occupied
\* with stability > 0.8, 1800 when occupied with stability <= 0.8, and 0
\* when unoccupied.
C8_PredictedDuration ==
    EstCalled /\ estIn # <<>> =>
        LET n == Len(estIn)
            stable == 5 * (n - Cardinality(EstFlips)) > 4 * n
            occupied == 2 * Cardinality(EstOccupied) > n
        IN  /\ occupied /\ stable => EstResult.predicted_duration = 3600
            /\ occupied /\ ~stable => EstResult.predicted_duration = 1800
            /\ ~occupied => EstResult.predicted_duration = 0

\* An occupied timeline of stability exactly 0.8 (one flip in five): 1800.
C8_Witness ==
    /\ EstCalled
    /\ Len(estIn) = 5
    /\ Cardinality(EstFlips) = 1
    /\ EstResult.final_status
    /\ EstResult.predicted_duration = 1800

\* C9: an empty timeline yields stability 0, unoccupied, confidence 0.5,
\* predicted_duration 1800 and changes 0.
C9_EmptyTimeline ==
    EstCalled /\ estIn = <<>> =>
        /\ EstResult.stability = Zero
        /\ EstResult.final_status = FALSE
        /\ EstResult.confidence = Rat(1, 2)
        /\ EstResult.predicted_duration = 1800
        /\ EstResult.changes = 0

C9_Witness == EstCalled /\ estIn = <<>>

(***************************************************************************)
(* Properties of the detector (checked under SpecDetect).                  *)
(***************************************************************************)
DetCalled == detOut # NoCall

DetResult == detOut[1]

DetBox(i) == DetResult.detections[i].bbox

\* C14: whatever the state of the model and whatever inference does,
\* detect_vehicles returns a detection list on a frame of any size (it never
\* raises), the list being synthetic when the model is missing or inference
\* raised.
C14_AlwaysReturnsList ==
    DetCalled =>
        /\ DetResult.raised = None
        /\ DetResult.synthetic <=>
              (detIn.detector.model = None \/ detIn.inference.raises)

\* C15: a synthetic list has between 0 and 4 detections and each of its
\* rectangles lies within the frame, for every frame size.
C15_SyntheticWithinFrame ==
    DetCalled /\ DetResult.raised = None /\ DetResult.synthetic =>
        /\ Len(DetResult.detections) \in 0..4
        /\ \A i \in 1..Len(DetResult.detections) :
              /\ DetBox(i)[1] >= 0
              /\ DetBox(i)[2] >= 0
              /\ DetBox(i)[1] + DetBox(i)[3] <= detIn.frame.width
              /\ DetBox(i)[2] + DetBox(i)[4] <= detIn.frame.height

\* C16: whenever detect_vehicles returns synthetic detections,
\* get_model_info reports model_type 'mock' and available false, and
\* whenever it reports a real model the detections came from the model.
C16_SyntheticIsReported ==
    DetCalled /\ DetResult.raised = None =>
        /\ DetResult.synthetic =>
              /\ get_model_info(detIn.detector).model_type = "mock"
              /\ ~get_model_info(detIn.detector).available
        /\ get_model_info(detIn.detector).model_type # "mock" => ~DetResult.synthetic

\* C17: no two detections of a list detect_vehicles returns overlap each
\* other by more than the detector's nms_threshold.
C17_SuppressedOutput ==
    DetCalled /\ DetResult.raised = None =>
        \A i, j \in 1..Len(DetResult.detections) :
            i # j => RLe(calculate_iou(DetBox(i), DetBox(j)), detIn.detector.nms_threshold)

(***************************************************************************)
(* Properties of non_max_suppression (checked under SpecSuppress).         *)
(***************************************************************************)
\* C18: non_max_suppression applied to its own output returns that output,
\* the same detections in the same order.
C18_Idempotent ==
    Len(nmsOut) = 2 => nmsOut[2] = nmsOut[1]

\* A list of which one detection was suppressed and two of equal
\* confidence were kept, suppressed again.
C18_Witness ==
    /\ Len(nmsOut) = 2
    /\ Len(nmsIn.detections) = 3
    /\ Len(nmsOut[1]) = 2
    /\ nmsOut[1][1].confidence = nmsOut[1][2].confidence
    /\ nmsOut[1][1] # nmsOut[1][2]

(***************************************************************************)
(* Properties of the overlap functions (checked under SpecOverlap).        *)
(***************************************************************************)
OvCalled == ovOut # NoCall

OvResult == ovOut[1]

\* The box has positive width and positive height.
PositiveArea(box) == box[3] > 0 /\ box[4] > 0

\* One box ends, in x or in y, where the other begins or before.
Disjoint(a, b) ==
    \/ a[1] + a[3] <= b[1]
    \/ b[1] + b[3] <= a[1]
    \/ a[2] + a[4] <= b[2]
    \/ b[2] + b[4] <= a[2]

C20_ZeroWithoutIntersection ==
    OvCalled =>
        IF Disjoint(ovIn[1], ovIn[2]) \/ ~PositiveArea(ovIn[1]) \/ ~PositiveArea(ovIn[2])
        THEN OvResult.ab = Zero /\ OvResult.iou_ab = Zero
        ELSE RLt(Zero, OvResult.ab) /\ RLt(Zero, OvResult.iou_ab)

\* Two unit boxes that touch along an edge.
C20_Witness ==
    /\ OvCalled
    /\ ovIn = <<(<<0, 0, 1, 1>>), (<<1, 0, 1, 1>>)>>
    /\ OvResult.ab = Zero

(***************************************************************************)
(* Slot rectangles and the frame (checked under Spec).                     *)
(***************************************************************************)
\* coordinates.get(name, 0)
Get(coordinates, name) == IF name \in DOMAIN coordinates THEN coordinates[name] ELSE 0

\* utils.validate_slot_coordinates; frame_shape is (height, width).
validate_slot_coordinates(coordinates, frame_shape) ==
    LET frame_height == frame_shape[1]
        frame_width == frame_shape[2]
        x == Get(coordinates, "x")
        y == Get(coordinates, "y")
        width == Get(coordinates, "width")
        height == Get(coordinates, "height")
    IN  IF x < 0 \/ y < 0
        THEN FALSE
        ELSE IF x + width > frame_width
             THEN FALSE
             ELSE IF y + height > frame_height
                  THEN FALSE
                  ELSE IF width <= 0 \/ height <= 0 THEN FALSE ELSE TRUE

\* C21: every slot rectangle handed to the classifier during a run lies
\* within the frame and has a strictly positive width and height, that is,
\* it passes validate_slot_coordinates for the shape of the frames read.
C21_SlotsWithinFrame ==
    \A slot \in classified :
        validate_slot_coordinates(slot.coordinates, <<FrameHeight, FrameWidth>>)

\* A run came to its report although a slot it classified reaches beyond
\* the frame.
C21_OutsideSlotReported ==
    /\ pc = "done"
    /\ \E slot \in classified :
          ~validate_slot_coordinates(slot.coordinates, <<FrameHeight, FrameWidth>>)

(***************************************************************************)
(* utils.parse_slot_config and the command line (main).                    *)
(*                                                                         *)
(* A JSON document is modelled by its parse tree, every node tagged with   *)
(* what it is; json.loads maps the tree to the Python value of the same    *)
(* shape.  Strings and arrays in the place of a slot or of its coordinates *)
(* are not among the documents below.                                      *)
(***************************************************************************)
MaxSlots == 2       \* longest slot list on the command line

JNumber(v) == [json |-> "number", value |-> v]
JString(v) == [json |-> "string", value |-> v]
JBoolean(v) == [json |-> "boolean", value |-> v]
JNull == [json |-> "null"]
\* The literal NaN: no JSON, but json.loads makes a float of it.
JNaN == [json |-> "NaN"]
JObject(members) == [json |-> "object", members |-> members]
JArray(items) == [json |-> "array", items |-> items]
\* A text on which json.loads raises JSONDecodeError.
Malformed == [json |-> "malformed"]

\* isinstance(slot_config, list)
IsList(value) == value.json = "array"

\* isinstance(coords[coord], (int, float)): json.loads makes an int or a
\* float of a number, a float of NaN, and of true and false a bool, which
\* is a subclass of int.
IsIntOrFloat(value) == value.json \in {"number", "NaN", "boolean"}

\* `key not in value` raises TypeError: value is an int, a float, a bool or
\* None.
NotIterable(value) == value.json \in {"number", "NaN", "boolean", "null"}

RequiredFields == <<"id", "slot_number", "coordinates">>
RequiredCoords == <<"x", "y", "width", "height">>

\* The loop over required_coords (lines 105-109): the exception it raises,
\* None for none.
RECURSIVE CoordsError(_, _)
CoordsError(coords, i) ==
    IF i > Len(RequiredCoords)
    THEN None
    ELSE IF NotIterable(coords)
         THEN "TypeError"
         ELSE IF RequiredCoords[i] \notin DOMAIN coords.members
              THEN "ValueError"
              ELSE IF ~IsIntOrFloat(coords.members[RequiredCoords[i]])
                   THEN "ValueError"
                   ELSE CoordsError(coords, i + 1)

\* The loop over required_fields (lines 97-100).
RECURSIVE FieldsError(_, _)
FieldsError(slot, i) ==
    IF i > Len(RequiredFields)
    THEN None
    ELSE IF NotIterable(slot)
         THEN "TypeError"
         ELSE IF RequiredFields[i] \notin DOMAIN slot.members
              THEN "ValueError"
              ELSE FieldsError(slot, i + 1)

\* The body of the loop over the slots (lines 96-109).
SlotError(slot) ==
    IF FieldsError(slot, 1) # None
    THEN FieldsError(slot, 1)
    ELSE CoordsError(slot.members.coordinates, 1)

\* The loop over the slots: the first exception raised, None for none.
RECURSIVE SlotsError(_, _)
SlotsError(items, i) ==
    IF i > Len(items)
    THEN None
    ELSE IF SlotError(items[i]) # None
         THEN SlotError(items[i])
         ELSE SlotsError(items, i + 1)

\* utils.parse_slot_config: the exception it raises and the list it returns.
parse_slot_config(document) ==
    IF document = Malformed
    THEN [raised |-> "ValueError", value |-> NoValue]
    ELSE IF ~IsList(document)
         THEN [raised |-> "ValueError", value |-> NoValue]
         ELSE IF SlotsError(document.items, 1) # None
              THEN [raised |-> SlotsError(document.items, 1), value |-> NoValue]
              ELSE [raised |-> None, value |-> document]

\* The documents handed to --slot_config.
CoordsDoc(x, y, width, height) ==
    JObject([x |-> x, y |-> y, width |-> width, height |-> height])

SlotDoc(id, number, coords) ==
    JObject([id |-> id, slot_number |-> number, coordinates |-> coords])

GoodCoords == CoordsDoc(JNumber(0), JNumber(0), JNumber(4), JNumber(4))

SlotDocs ==
    {SlotDoc(JNumber(1), JNumber(1), GoodCoords),
     SlotDoc(JString("b"), JString("B2"), GoodCoords),
     JObject([slot_number |-> JNumber(1), coordinates |-> GoodCoords]),
     JObject([id |-> JNumber(1), coordinates |-> GoodCoords]),
     JObject([id |-> JNumber(1), slot_number |-> JNumber(1)]),
     SlotDoc(JNumber(1), JNumber(1),
             JObject([x |-> JNumber(0), y |-> JNumber(0), width |-> JNumber(4)])),
     SlotDoc(JNumber(1), JNumber(1),
             CoordsDoc(JString("0"), JNumber(0), JNumber(4), JNumber(4))),
     SlotDoc(JNumber(1), JNumber(1),
             CoordsDoc(JNumber(0), JNull, JNumber(4), JNumber(4))),
     SlotDoc(JNumber(1), JNumber(1),
             CoordsDoc(JNumber(0), JNumber(0), JBoolean(TRUE), JNumber(4))),
     SlotDoc(JNumber(1), JNumber(1),
             CoordsDoc(JNumber(0), JNumber(0), JNumber(4), JNaN)),
     SlotDoc(JNumber(1), JNumber(1), JNull),
     JNumber(5)}

SlotLists(n) == UNION {[1..k -> SlotDocs] : k \in 0..n}

\* main() before parse_slot_config is called.
CliStart == [pc |-> "start", slot_config |-> NoValue, processor |-> None, error |-> None]

InitParse ==
    /\ \E document \in {Malformed, JNull, JNumber(5), JObject([slots |-> JArray(<<>>)])}
                        \cup {JArray(items) : items \in SlotLists(MaxSlots)} :
          slot_config_str = document
    /\ cli = CliStart
    /\ clsIn = <<>>
    /\ clsOut = NoCall
    /\ estIn = <<>>
    /\ estOut = NoCall
    /\ ProcessorIdle
    /\ UtilIdle

\* slot_config = parse_slot_config(args.slot_config) (line 440); an
\* exception is caught at line 480 and ends main with exit status 1.
MainParse ==
    /\ cli.pc = "start"
    /\ LET parsed == parse_slot_config(slot_config_str)
       IN  cli' = IF parsed.raised # None
                  THEN [cli EXCEPT !.pc = "exit", !.error = parsed.raised]
                  ELSE [cli EXCEPT !.pc = "parsed", !.slot_config = parsed.value]
    /\ UNCHANGED <<clsVars, estVars, detVars, nmsVars, ovVars, runVars, slot_config_str>>

\* processor = VideoProcessor(args.model_path) (line 443)
MainBuild ==
    /\ cli.pc = "parsed"
    /\ cli' = [cli EXCEPT !.pc = "built", !.processor = "VideoProcessor"]
    /\ UNCHANGED <<clsVars, estVars, detVars, nmsVars, ovVars, runVars, slot_config_str>>

\* results = processor.process_video(...) is entered (lines 446-451).
MainProcess ==
    /\ cli.pc = "built"
    /\ cli' = [cli EXCEPT !.pc = "process_video"]
    /\ UNCHANGED <<clsVars, estVars, detVars, nmsVars, ovVars, runVars, slot_config_str>>

NextParse ==
    \/ MainParse
    \/ MainBuild
    \/ MainProcess

SpecParse == InitParse /\ [][NextParse]_vars

(***************************************************************************)
(* Properties of parse_slot_config (checked under SpecParse).              *)
(***************************************************************************)
\* A coordinate that is present and is a JSON number.
NumericCoord(coords, name) ==
    /\ name \in DOMAIN coords.members
    /\ coords.members[name].json = "number"

\* A record carrying id, slot_number and coordinates, the four coordinates
\* being present and numeric.
CompleteSlot(slot) ==
    /\ slot.json = "object"
    /\ {"id", "slot_number", "coordinates"} \subseteq DOMAIN slot.members
    /\ slot.members.coordinates.json = "object"
    /\ \A name \in {"x", "y", "width", "height"} :
          NumericCoord(slot.members.coordinates, name)

\* Valid JSON that is a list of complete slots.
CompleteList(document) ==
    /\ document.json = "array"
    /\ \A i \in 1..Len(document.items) : CompleteSlot(document.items[i])

\* C22: once parse_slot_config has run on the command line, main has ended
\* in an error without building the processor if the document is not a
\* list of complete slots with numeric coordinates, and otherwise goes on
\* with the decoded list unchanged; the processor is built and
\* process_video entered only after that.
C22_ParseValidates ==
    cli.pc # "start" =>
        IF CompleteList(slot_config_str)
        THEN /\ cli.pc # "exit"
             /\ cli.slot_config = slot_config_str
        ELSE /\ cli.pc = "exit"
             /\ cli.processor = None

\* process_video is entered with a slot whose width is the JSON value true.
C22_BooleanAccepted ==
    /\ cli.pc = "process_video"
    /\ \E i \in 1..Len(cli.slot_config.items) :
          LET slot == cli.slot_config.items[i]
          IN  slot.members.coordinates.members.width = JBoolean(TRUE)

\* A coordinate that is true, false or NaN.
OddCoord(slot) ==
    /\ slot.json = "object"
    /\ "coordinates" \in DOMAIN slot.members
    /\ slot.members.coordinates.json = "object"
    /\ \E name \in DOMAIN slot.members.coordinates.members :
          slot.members.coordinates.members[name].json \in {"boolean", "NaN"}

\* The same with the documents set aside in which a coordinate is true,
\* false or NaN.
C22_ExceptBooleans ==
    (slot_config_str.json = "array" =>
        \A i \in 1..Len(slot_config_str.items) : ~OddCoord(slot_config_str.items[i]))
        => C22_ParseValidates

(***************************************************************************)
(* Properties of the report (checked under Spec).                          *)
(***************************************************************************)
Reported == pc = "done"

SlotReports == final_results.slot_detections

OccupiedReports == {i \in 1..Len(SlotReports) : SlotReports[i].is_occupied}

\* C23: in every report vehicle_count is the number of slot reports with
\* is_occupied true, and occupancy_rate is vehicle_count over the number
\* of configured slots times 100, which lies between 0 and 100.
C23_CountAndRate ==
    Reported =>
        /\ final_results.vehicle_count = Cardinality(OccupiedReports)
        /\ final_results.occupancy_rate =
               Rat(final_results.vehicle_count * 100, Len(slot_config))
        /\ RLe(Zero, final_results.occupancy_rate)
        /\ RLe(final_results.occupancy_rate, Rat(100, 1))

\* A full-mode report on two slots of which one is occupied: rate 50.
C23_Witness ==
    /\ Reported
    /\ analysis_type = "full"
    /\ Len(slot_config) = 2
    /\ final_results.vehicle_count = 1
    /\ final_results.occupancy_rate = Rat(50, 1)

(***************************************************************************)
(* Properties of repeated calls (checked under SpecRuns).                  *)
(***************************************************************************)
\* C24: a report is not changed once it is returned: whatever calls
\* follow on the same VideoProcessor, every report returned before reads,
\* in each of its entries and in its processing_stats, what it read when
\* it was returned.
C24_ReportsUnchanged ==
    \A k \in 1..Len(reports) : Deref(reports[k]) = returned[k]

\* Two calls returned, and the first report's processing_stats now counts
\* more processed frames than when it was returned.
C24_StatsRewritten ==
    /\ Len(reports) = 2
    /\ returned[1].processing_stats.processed_frames
           < Deref(reports[1]).processing_stats.processed_frames

\* The frames a call on a video of that many frames passes to the
\* detector: every 30th in the occupancy pass, every 15th in the duration
\* pass, both passes in full mode.
PassedToDetector(type, frames) ==
    IF type = "occupancy"
    THEN CeilDiv(frames, OccupancyInterval)
    ELSE IF type = "duration"
         THEN CeilDiv(frames, DurationInterval)
         ELSE CeilDiv(frames, OccupancyInterval) + CeilDiv(frames, DurationInterval)

\* C27: the processed_frames of every report, of a first call and of a
\* later one, is the number of frames that call passed to the detector.
C27_ProcessedFramesPerCall ==
    Reported =>
        /\ final_results.processed_frames = io.detects
        /\ final_results.processed_frames
               = PassedToDetector(analysis_type, final_results.total_frames)

\* The same for the first call on a VideoProcessor alone.
C27_FirstCall == calls = 1 => C27_ProcessedFramesPerCall

\* A second call returned a report that counts more frames than the call
\* passed to the detector.
C27_SecondCallCountsBoth ==
    /\ Reported
    /\ calls = 2
    /\ final_results.processed_frames > io.detects

(***************************************************************************)
(* Properties of the timelines (checked under Spec).                       *)
(***************************************************************************)
\* The timeline of the i-th configured slot, before and after a step.
TimelineOf(i) == slot_timeline[slot_config[i].id]

TimelineOfNext(i) == slot_timeline'[slot_config[i].id]

\* The frame indices of a timeline increase strictly.
Increasing(timeline) ==
    \A j \in 1..Len(timeline), k \in 1..Len(timeline) :
        j < k => timeline[j].frame < timeline[k].frame

\* A step of the duration pass that handled a sampled frame to its end.
SampledStep ==
    /\ pc = "duration"
    /\ pc' = "duration"
    /\ sampled' # sampled

\* What C25 asks of a step of the duration pass, for the i-th slot.
TimelineStep(i) ==
    /\ SubSeq(TimelineOfNext(i), 1, Len(TimelineOf(i))) = TimelineOf(i)
    /\ Len(TimelineOf(i)) <= Len(TimelineOfNext(i))
    /\ SampledStep =>
          /\ Len(TimelineOfNext(i)) = Len(TimelineOf(i)) + 1
          /\ TimelineOfNext(i)[Len(TimelineOfNext(i))].frame = frame_count
    /\ Increasing(TimelineOfNext(i))

\* C25: in the duration pass every slot's timeline is append-only and
\* ordered: a sampled frame adds exactly one entry, for that frame, to
\* each slot's timeline, no step changes or removes an entry, and the
\* frame indices of a timeline increase strictly.
C25_TimelineAppendOnly ==
    [][(pc = "duration" /\ pc' = "duration") =>
           \A i \in 1..Len(slot_config) : TimelineStep(i)]_vars

\* No two configured slots share an id.
DistinctIds ==
    \A i \in 1..Len(slot_config), j \in 1..Len(slot_config) :
        slot_config[i].id = slot_config[j].id => i = j

\* The same for the configurations in which no two slots share an id.
C25_DistinctIdTimelines ==
    [][(pc = "duration" /\ pc' = "duration" /\ DistinctIds) =>
           \A i \in 1..Len(slot_config) : TimelineStep(i)]_vars

\* One sampled frame has left two entries in a slot's timeline.
C25_TwoEntriesPerFrame ==
    /\ pc = "duration"
    /\ Len(sampled) = 1
    /\ \E i \in 1..Len(slot_config) : Len(TimelineOf(i)) = 2

(***************************************************************************)
(* The estimator's confidence (checked under SpecEstimate).                *)
(***************************************************************************)
\* The arithmetic mean of the entries' confidences.
EstMean == RDivInt(ConfidenceSum(estIn), Len(estIn))

\* C26: for a non-empty timeline the estimator's confidence is the mean of
\* the entries' confidences times the stability score 1 - flips / length;
\* it never exceeds the mean, equals the mean when the timeline has no
\* flip, and, the mean being positive, is below it when there is a flip.
C26_ConfidenceIsMeanTimesStability ==
    EstCalled /\ estIn # <<>> =>
        /\ EstResult.confidence = RMul(EstMean, EstResult.stability)
        /\ EstResult.confidence =
               RMul(EstMean, Rat(Len(estIn) - Cardinality(EstFlips), Len(estIn)))
        /\ RLe(EstResult.confidence, EstMean)
        /\ EstFlips = {} => EstResult.confidence = EstMean
        /\ (EstFlips # {} /\ RLt(Zero, EstMean)) => RLt(EstResult.confidence, EstMean)

\* Four entries of confidence 0.9 with two flips: 0.9 * 0.5 = 0.45.
C26_Witness ==
    /\ EstCalled
    /\ Len(estIn) = 4
    /\ \A i \in 1..4 : estIn[i].confidence = Rat(9, 10)
    /\ Cardinality(EstFlips) = 2
    /\ EstResult.confidence = Rat(45, 100)

(***************************************************************************)
(* Properties of the slot reports (checked under Spec).                    *)
(***************************************************************************)
\* Occupancy and predicted duration of one slot report agree.
Agree(report) ==
    /\ ~report.is_occupied => report.predicted_duration = 0
    /\ report.is_occupied => report.predicted_duration \in {BaseDuration, 2 * BaseDuration}

\* C28: in every slot report that carries a predicted_duration, that is,
\* in every report not of occupancy mode, is_occupied false goes with a
\* predicted_duration of 0 and is_occupied true with one of 1800 or 3600.
C28_OccupancyAgreesWithDuration ==
    (Reported /\ analysis_type # "occupancy") =>
        \A i \in 1..Len(SlotReports) : Agree(SlotReports[i])

\* The same for duration mode alone.
C28_DurationMode ==
    (Reported /\ analysis_type = "duration") =>
        \A i \in 1..Len(SlotReports) : Agree(SlotReports[i])

\* A full-mode report on a video of 31 frames calls a slot occupied and
\* predicts a duration of 0 for it.
C28_OccupiedWithoutDuration ==
    /\ Reported
    /\ analysis_type = "full"
    /\ final_results.total_frames = 2 * DurationInterval + 1
    /\ \E i \in 1..Len(SlotReports) :
          SlotReports[i].is_occupied /\ SlotReports[i].predicted_duration = 0

\* One slot report per configured slot, in the order of the configuration,
\* carrying the slot's id and slot_number.
OnePerSlot ==
    /\ Len(SlotReports) = Len(slot_config)
    /\ \A i \in 1..Len(slot_config) :
          /\ SlotReports[i].slot_id = slot_config[i].id
          /\ SlotReports[i].slot_number = slot_config[i].slot_number

\* C29: in every mode and for every configuration parse_slot_config
\* accepts, two slots of one id included, the report of a successful run
\* holds exactly one slot report per configured slot, in configuration
\* order, with that slot's id and slot_number.
C29_OneReportPerSlot == Reported => OnePerSlot

\* The same for the configurations in which no two slots share an id.
C29_DistinctIds == (Reported /\ DistinctIds) => OnePerSlot

\* Full mode on two slots of one id ends in the IndexError of the merge.
C29_FullModeRaises ==
    /\ pc = "raised"
    /\ error = "IndexError"
    /\ slot_config = <<SlotP, SlotR>>

\* The mode whose pass or passes ran and produced the slot reports.
ModeRun ==
    IF occupancy_results # NoValue /\ duration_results # NoValue
    THEN "full"
    ELSE IF occupancy_results # NoValue THEN "occupancy" ELSE "duration"

\* C30: the analysis_type of a report is one of occupancy, duration and
\* full, and names the mode whose passes produced the slot reports,
\* whatever analysis_type the caller passed.
C30_AnalysisTypeNamesMode ==
    Reported =>
        /\ final_results.analysis_type \in {"occupancy", "duration", "full"}
        /\ final_results.analysis_type = ModeRun

\* The same for the three values the command line offers.
C30_OfferedTypes ==
    (Reported /\ analysis_type \in {"occupancy", "duration", "full"}) =>
        final_results.analysis_type = ModeRun

\* Both passes ran and the report names neither of the three modes.
C30_UnknownTypeRunsFull ==
    /\ Reported
    /\ ModeRun = "full"
    /\ final_results.analysis_type = "summary"
====
